---- MODULE Spec2Model ----
(***************************************************************************)
(* A model of the prediction server of yekta/stable-diffusion-cog:         *)
(*   src/predict.py                          Predictor.setup / .predict    *)
(*   src/models/stable_diffusion/helpers.py  make_scheduler                *)
(* The generation and upscale orchestrators (models/stable_diffusion/      *)
(* generate.py, models/swinir/upscale.py) are imported by predict.py but   *)
(* their code is not among the sources; they are modelled from the         *)
(* specification's sections 4.3, 4.4 and 7.                                *)
(*                                                                         *)
(* Objects are modelled by identity: every weight-bearing component is a   *)
(* natural number naming the object, so that two pipelines sharing a       *)
(* component and two pipelines holding equal copies are different states.  *)
(* A scheduler is modelled by its class: no code here mutates a scheduler  *)
(* object in place, pipelines only have their scheduler attribute rebound. *)
(***************************************************************************)
EXTENDS Naturals, Sequences, FiniteSets

VARIABLES
    phase,      \* "start" | "ready" | "aborted": the lifecycle of the Predictor
    loaded,     \* the attributes of self that setup has assigned
    pipes,      \* pipeline attribute -> its components (object ids) and scheduler
    req,        \* the last request received (NoReq before the first)
    calls,      \* the calls made while handling the last request, in order
    run,        \* the pipeline invocation of the last request (NoRun if none)
    nsfw,       \* the image indices the safety filter rejected in the last run
    result,     \* what the last request returned or raised
    ms_in,      \* names handed to make_scheduler when it is exercised alone
    ms_out      \* the results of those calls, in order

vars == <<phase, loaded, pipes, req, calls, run, nsfw, result, ms_in, ms_out>>

----------------------------------------------------------------------------
(* Bounds of the model *)

MaxOutputs == 3
MaxNames == 2

(* Program constants *)

NumOutputsMin == 1
NumOutputsMax == 10
DefaultInferenceSteps == 50

----------------------------------------------------------------------------
(* helpers.py: make_scheduler *)

SchedulerNames == {"PNDM", "K-LMS", "DDIM", "K_EULER", "K_EULER_ANCESTRAL"}

\* The dictionary literal of make_scheduler: name -> scheduler class.
SchedulerTable ==
    [n \in SchedulerNames |->
        CASE n = "PNDM" -> "PNDMScheduler"
          [] n = "K-LMS" -> "LMSDiscreteScheduler"
          [] n = "DDIM" -> "DDIMScheduler"
          [] n = "K_EULER" -> "EulerDiscreteScheduler"
          [] n = "K_EULER_ANCESTRAL" -> "EulerAncestralDiscreteScheduler"]

Returned(s) == [kind |-> "ok", scheduler |-> s]
Raised(e) == [kind |-> e, scheduler |-> "none"]

\* Mutant: a lookup that falls back to a default variant (dict.get(name, PNDM)).
make_scheduler_default(name) ==
    IF name \in DOMAIN SchedulerTable
    THEN Returned(SchedulerTable[name])
    ELSE Returned(SchedulerTable["PNDM"])

\* Mutant: the K_EULER entry built from the ancestral class (a copy-paste slip).
make_scheduler_slip(name) ==
    IF name \in DOMAIN SchedulerTable
    THEN Returned(IF name = "K_EULER" THEN "EulerAncestralDiscreteScheduler"
                  ELSE SchedulerTable[name])
    ELSE Raised("KeyError")

\* {...}[name]: the entry for name, or KeyError when the dict has no such key.
make_scheduler(name) ==
    IF name \in DOMAIN SchedulerTable
    THEN Returned(SchedulerTable[name])
    ELSE Raised("KeyError")

----------------------------------------------------------------------------
(* predict.py: Predictor.setup *)

PipeNames == {"txt2img_pipe", "img2img_pipe", "inpaint_pipe"}

\* The attributes setup assigns, in the order of its assignments.
HandleOrder ==
    <<"txt2img_pipe", "img2img_pipe", "inpaint_pipe", "detect_language",
      "translate_tokenizer", "translate_model", "swinir_args", "device">>

NumHandles == Len(HandleOrder)

WeightComponents ==
    <<"vae", "text_encoder", "tokenizer", "unet", "safety_checker",
      "feature_extractor">>

NoPipe ==
    [vae |-> 0, text_encoder |-> 0, tokenizer |-> 0, unet |-> 0,
     safety_checker |-> 0, feature_extractor |-> 0, scheduler |-> "none"]

\* StableDiffusionPipeline.from_pretrained: a pipeline of freshly loaded
\* objects, numbered from base + 1, with the checkpoint's own scheduler.
from_pretrained(base) ==
    [vae |-> base + 1, text_encoder |-> base + 2, tokenizer |-> base + 3,
     unet |-> base + 4, safety_checker |-> base + 5,
     feature_extractor |-> base + 6, scheduler |-> "CheckpointScheduler"]

\* Mutant: the image-to-image pipeline loaded from the checkpoint a second time.
StableDiffusionImg2ImgPipeline_reloaded(base) ==
    from_pretrained(Len(WeightComponents))

\* StableDiffusionImg2ImgPipeline(vae=self.txt2img_pipe.vae, ...): every
\* component, the scheduler included, is the object the base pipeline holds.
StableDiffusionImg2ImgPipeline(base) ==
    [vae |-> base.vae, text_encoder |-> base.text_encoder,
     tokenizer |-> base.tokenizer, unet |-> base.unet,
     safety_checker |-> base.safety_checker,
     feature_extractor |-> base.feature_extractor,
     scheduler |-> base.scheduler]

\* StableDiffusionInpaintPipelineLegacy(vae=self.txt2img_pipe.vae, ...).
StableDiffusionInpaintPipelineLegacy(base) ==
    [vae |-> base.vae, text_encoder |-> base.text_encoder,
     tokenizer |-> base.tokenizer, unet |-> base.unet,
     safety_checker |-> base.safety_checker,
     feature_extractor |-> base.feature_extractor,
     scheduler |-> base.scheduler]

\* The pipelines as setup leaves them when its first k assignments were made.
PipesAfter(k) ==
    LET base == from_pretrained(0) IN
    [p \in PipeNames |->
        CASE p = "txt2img_pipe" -> IF k >= 1 THEN base ELSE NoPipe
          [] p = "img2img_pipe" ->
                IF k >= 2 THEN StableDiffusionImg2ImgPipeline(base) ELSE NoPipe
          [] p = "inpaint_pipe" ->
                IF k >= 3 THEN StableDiffusionInpaintPipelineLegacy(base)
                ELSE NoPipe]

\* Mutant: a load failure is swallowed and the predictor reports itself ready.
setup_outcome_swallowed(fail_at) == "ready"

\* setup has no try/except: the first failing load raises out of setup.
setup_outcome(fail_at) == IF fail_at = 0 THEN "ready" ELSE "aborted"

\* fail_at = 0: every load succeeds; fail_at = i: the i-th assignment's
\* right-hand side raises, after the assignments before it were made.
setup(fail_at) ==
    /\ phase = "start"
    /\ LET k == IF fail_at = 0 THEN NumHandles ELSE fail_at - 1 IN
        /\ loaded' = {HandleOrder[i] : i \in 1..k}
        /\ pipes' = PipesAfter(k)
    /\ phase' = setup_outcome(fail_at)
    /\ UNCHANGED <<req, calls, run, nsfw, result, ms_in, ms_out>>

----------------------------------------------------------------------------
(* predict.py: the inputs of Predictor.predict *)

ProcessTypeChoices == {"generate", "upscale"}
SchedulerChoices == {"DDIM", "K-LMS", "PNDM", "K_EULER", "K_EULER_ANCESTRAL"}

\* A request: the fields of predict's signature that decide its control flow.
\* init_image and mask are TRUE when a path is given and FALSE when None;
\* prompt_en is the language detector's verdict on the prompt.
Request(pt, im, mk, sc, n, en) ==
    [process_type |-> pt, init_image |-> im, mask |-> mk, scheduler |-> sc,
     num_outputs |-> n, num_inference_steps |-> DefaultInferenceSteps,
     prompt_en |-> en]

NoReq == Request("none", FALSE, FALSE, "none", 0, TRUE)

\* Generation requests: every combination of image, mask, scheduler and
\* prompt language with the default output count, and every combination of
\* image, mask and output count with the default scheduler.
GenerateRequests ==
    {Request("generate", im, mk, sc, 1, en) :
        im \in BOOLEAN, mk \in BOOLEAN, sc \in SchedulerChoices,
        en \in BOOLEAN}
    \cup {Request("generate", im, mk, "K-LMS", n, TRUE) :
            im \in BOOLEAN, mk \in BOOLEAN, n \in NumOutputsMin..MaxOutputs}

UpscaleRequests ==
    {Request("upscale", im, mk, sc, 1, TRUE) :
        im \in BOOLEAN, mk \in BOOLEAN, sc \in SchedulerChoices}

\* Requests that break a declared constraint of an input.
OutOfChoiceRequests ==
    {Request(pt, im, mk, "K-LMS", 1, TRUE) :
        pt \in {"other", ""}, im \in BOOLEAN, mk \in BOOLEAN}
    \cup {Request("generate", FALSE, FALSE, sc, 1, TRUE) : sc \in {"LMS", "pndm"}}
    \cup {Request("generate", FALSE, FALSE, "K-LMS", n, TRUE) :
            n \in {NumOutputsMin - 1, NumOutputsMax + 1}}

Requests == GenerateRequests \cup UpscaleRequests \cup OutOfChoiceRequests

\* Mutant: process_type declared as a free string, without choices.
InputsValid_no_process_type(r) ==
    /\ r.scheduler \in SchedulerChoices
    /\ r.num_outputs >= NumOutputsMin
    /\ r.num_outputs <= NumOutputsMax

\* The constraints the Input declarations put on a request (choices, ge, le);
\* a request that breaks one is refused before predict's body runs.
InputsValid(r) ==
    /\ r.process_type \in ProcessTypeChoices
    /\ r.scheduler \in SchedulerChoices
    /\ r.num_outputs >= NumOutputsMin
    /\ r.num_outputs <= NumOutputsMax

----------------------------------------------------------------------------
(* models/stable_diffusion/generate.py and models/swinir/upscale.py,       *)
(* modelled from the specification (sections 4.3, 4.4, 7)                  *)

NoRun == [pipe |-> "none", scheduler |-> "none", num_images |-> 0]
NoResult == [kind |-> "none", err |-> "", paths |-> <<>>]
Ok(paths) == [kind |-> "ok", err |-> "", paths |-> paths]
Err(e) == [kind |-> "error", err |-> e, paths |-> <<>>]

\* Mutant: the fixed variant taken to be the ancestral stepping scheduler.
ImageConditionedScheduler_ancestral == "EulerAncestralDiscreteScheduler"

\* The scheduler forced on the image-conditioned paths; the scheduler input's
\* description names it: "If you use an init image, PNDM will be used."
ImageConditionedScheduler == "PNDMScheduler"

\* 4.3 step 2: the requested scheduler without a conditioning image, the
\* fixed variant with one.
select_scheduler(a) ==
    IF a.init_image
    THEN Returned(ImageConditionedScheduler)
    ELSE make_scheduler(a.scheduler)

\* 4.3 step 3: the pipeline handle that is run.
select_pipeline(a) ==
    IF a.mask THEN a.inpaint_pipe
    ELSE IF a.init_image THEN a.img2img_pipe
    ELSE a.txt2img_pipe

\* 4.3 step 1: the language detector always runs; the translation tokenizer
\* and model run when the prompt is not detected as English.
translate(a) ==
    IF a.prompt_en
    THEN <<a.detect_language>>
    ELSE <<a.detect_language, a.translate_tokenizer, a.translate_model>>

RECURSIVE OutputPathsFrom(_, _, _)
\* 4.3 step 5: images i..n-1 in index order, skipping those the filter rejected.
OutputPathsFrom(i, n, flagged) ==
    IF i >= n THEN <<>>
    ELSE (IF i \in flagged THEN <<>> ELSE <<i>>)
         \o OutputPathsFrom(i + 1, n, flagged)

\* One generation request; a: the arguments, P: the pipelines, flagged: the
\* indices the safety filter would reject. Returns the calls made, the
\* pipelines afterwards, the pipeline run and the result.
generate(a, P, flagged) ==
    IF a.mask /\ ~a.init_image
    THEN [calls |-> <<>>, pipes |-> P, run |-> NoRun, nsfw |-> {},
          result |-> Err("ValidationError")]
    ELSE
        LET s == select_scheduler(a)
            pipe == select_pipeline(a)
            n == a.num_outputs
            rejected == flagged \cap (0..(n - 1))
        IN  IF s.kind # "ok"
            THEN [calls |-> translate(a), pipes |-> P, run |-> NoRun,
                  nsfw |-> {}, result |-> Err(s.kind)]
            ELSE [calls |-> translate(a) \o <<pipe>>,
                  pipes |-> [P EXCEPT ![pipe].scheduler = s.scheduler],
                  run |-> [pipe |-> pipe, scheduler |-> s.scheduler,
                           num_images |-> n],
                  nsfw |-> rejected,
                  result |-> Ok(OutputPathsFrom(0, n, rejected))]

\* One upscale request: the network runs over the input image and the
\* result is written as one artifact.
upscale(r, P) ==
    [calls |-> <<>>, pipes |-> P, run |-> NoRun, nsfw |-> {},
     result |-> Ok(<<0>>)]

----------------------------------------------------------------------------
(* predict.py: Predictor.predict *)

\* Mutant: init_image and mask handed over in each other's position.
GenerateArgs_swapped_images(r) ==
    [init_image |-> r.mask, mask |-> r.init_image,
     num_outputs |-> r.num_outputs,
     num_inference_steps |-> r.num_inference_steps,
     scheduler |-> r.scheduler, prompt_en |-> r.prompt_en,
     txt2img_pipe |-> "txt2img_pipe", img2img_pipe |-> "img2img_pipe",
     inpaint_pipe |-> "inpaint_pipe", translate_model |-> "translate_model",
     translate_tokenizer |-> "translate_tokenizer",
     detect_language |-> "detect_language"]

\* Mutant: the image-to-image and inpainting handles in each other's position.
GenerateArgs_swapped_pipes(r) ==
    [init_image |-> r.init_image, mask |-> r.mask,
     num_outputs |-> r.num_outputs,
     num_inference_steps |-> r.num_inference_steps,
     scheduler |-> r.scheduler, prompt_en |-> r.prompt_en,
     txt2img_pipe |-> "txt2img_pipe", img2img_pipe |-> "inpaint_pipe",
     inpaint_pipe |-> "img2img_pipe", translate_model |-> "translate_model",
     translate_tokenizer |-> "translate_tokenizer",
     detect_language |-> "detect_language"]

\* Mutant: num_outputs and num_inference_steps in each other's position.
GenerateArgs_swapped_counts(r) ==
    [init_image |-> r.init_image, mask |-> r.mask,
     num_outputs |-> r.num_inference_steps,
     num_inference_steps |-> r.num_outputs,
     scheduler |-> r.scheduler, prompt_en |-> r.prompt_en,
     txt2img_pipe |-> "txt2img_pipe", img2img_pipe |-> "img2img_pipe",
     inpaint_pipe |-> "inpaint_pipe", translate_model |-> "translate_model",
     translate_tokenizer |-> "translate_tokenizer",
     detect_language |-> "detect_language"]

\* The positional arguments of the call generate(prompt, ..., detect_language):
\* each parameter of generate receives the request field or the attribute of
\* self written at its position.
GenerateArgs(r) ==
    [init_image |-> r.init_image, mask |-> r.mask,
     num_outputs |-> r.num_outputs,
     num_inference_steps |-> r.num_inference_steps,
     scheduler |-> r.scheduler, prompt_en |-> r.prompt_en,
     txt2img_pipe |-> "txt2img_pipe", img2img_pipe |-> "img2img_pipe",
     inpaint_pipe |-> "inpaint_pipe", translate_model |-> "translate_model",
     translate_tokenizer |-> "translate_tokenizer",
     detect_language |-> "detect_language"]

\* Mutant: the branch on process_type lost, every request generated.
predict_body_always_generate(r, P, flagged) ==
    [generate(GenerateArgs(r), P, flagged) EXCEPT !.calls = <<"generate">> \o @]

\* The body of predict: if process_type == 'upscale' ... else ...; whatever
\* the orchestrator returns or raises is what predict returns or raises.
predict_body(r, P, flagged) ==
    IF r.process_type = "upscale"
    THEN [upscale(r, P) EXCEPT !.calls = <<"upscale">> \o @]
    ELSE [generate(GenerateArgs(r), P, flagged)
             EXCEPT !.calls = <<"generate">> \o @]

\* The safety filter's possible verdicts on the images of request r.
Verdicts(r) ==
    IF InputsValid(r) /\ r.process_type # "upscale" /\ r.num_outputs <= MaxOutputs
    THEN SUBSET (0..(r.num_outputs - 1))
    ELSE {{}}

\* One request, served only by a predictor whose setup completed.
predict(r, flagged) ==
    /\ phase = "ready"
    /\ req' = r
    /\ IF InputsValid(r)
       THEN \E o \in {predict_body(r, pipes, flagged)} :
            /\ calls' = o.calls
            /\ pipes' = o.pipes
            /\ run' = o.run
            /\ nsfw' = o.nsfw
            /\ result' = o.result
       ELSE /\ calls' = <<>>
            /\ run' = NoRun
            /\ nsfw' = {}
            /\ result' = Err("InputRejected")
            /\ UNCHANGED pipes
    /\ UNCHANGED <<phase, loaded, ms_in, ms_out>>

----------------------------------------------------------------------------
(* The specification of the server *)

MainInit ==
    /\ phase = "start"
    /\ loaded = {}
    /\ pipes = [p \in PipeNames |-> NoPipe]
    /\ req = NoReq
    /\ calls = <<>>
    /\ run = NoRun
    /\ nsfw = {}
    /\ result = NoResult

Init ==
    /\ MainInit
    /\ ms_in = <<>>
    /\ ms_out = <<>>

Next ==
    \/ \E fail_at \in 0..NumHandles : setup(fail_at)
    \/ \E r \in Requests : \E flagged \in Verdicts(r) : predict(r, flagged)

Spec == Init /\ [][Next]_vars

----------------------------------------------------------------------------
(* make_scheduler exercised alone, on names inside and outside its table *)

ProbeNames == SchedulerNames \cup {"", "pndm", "K_LMS", "EULER"}

NameSeqs == UNION {[1..k -> ProbeNames] : k \in 0..MaxNames}

InitMS ==
    /\ MainInit
    /\ ms_in \in NameSeqs
    /\ ms_out = <<>>

call_make_scheduler ==
    /\ Len(ms_out) < Len(ms_in)
    /\ ms_out' = Append(ms_out, make_scheduler(ms_in[Len(ms_out) + 1]))
    /\ UNCHANGED <<phase, loaded, pipes, req, calls, run, nsfw, result, ms_in>>

NextMS == call_make_scheduler

SpecMS == InitMS /\ [][NextMS]_vars

----------------------------------------------------------------------------
(* The properties checked *)

Count(seq, x) == Cardinality({i \in DOMAIN seq : seq[i] = x})

PipelineRuns == Cardinality({i \in DOMAIN calls : calls[i] \in PipeNames})

\* The scheduler class each of the five names stands for.
VariantNamed(name) ==
    CASE name = "PNDM" -> "PNDMScheduler"
      [] name = "K-LMS" -> "LMSDiscreteScheduler"
      [] name = "DDIM" -> "DDIMScheduler"
      [] name = "K_EULER" -> "EulerDiscreteScheduler"
      [] name = "K_EULER_ANCESTRAL" -> "EulerAncestralDiscreteScheduler"
      [] OTHER -> "none"

\* The body of predict ran for the last request.
Entered == req # NoReq /\ result.err # "InputRejected"

\* The last request reached the generation orchestrator's branch as a
\* generation request.
GenEntered == Entered /\ req.process_type = "generate"

MaskOnly == req.mask /\ ~req.init_image

\* C1: every call of predict invokes exactly one orchestrator: upscale and
\* never generate when process_type is "upscale", generate and never upscale
\* when process_type is "generate".
C1_ExactlyOneOrchestrator ==
    Entered =>
        /\ Count(calls, "upscale") + Count(calls, "generate") = 1
        /\ req.process_type = "upscale" =>
                Count(calls, "upscale") = 1 /\ Count(calls, "generate") = 0
        /\ req.process_type = "generate" =>
                Count(calls, "generate") = 1 /\ Count(calls, "upscale") = 0

C1_Witness ==
    /\ Entered
    /\ req.process_type = "upscale"
    /\ req.init_image
    /\ calls = <<"upscale">>
    /\ result.kind = "ok"

\* C2: a generation request with both init_image and mask runs the
\* inpainting pipeline, with init_image alone the image-to-image pipeline,
\* with neither the text-to-image pipeline, and in each of these cases
\* exactly one pipeline is run.
C2_PipelineSelection ==
    (GenEntered /\ ~MaskOnly) =>
        /\ PipelineRuns = 1
        /\ run.pipe = (IF req.init_image /\ req.mask THEN "inpaint_pipe"
                       ELSE IF req.init_image THEN "img2img_pipe"
                       ELSE "txt2img_pipe")
        /\ Count(calls, run.pipe) = 1

C2_Witness ==
    /\ GenEntered
    /\ req.init_image
    /\ req.mask
    /\ run.pipe = "inpaint_pipe"
    /\ result.kind = "ok"

\* C3: whatever requests came before, a generation request with neither
\* init_image nor mask runs the text-to-image pipeline with the scheduler
\* its scheduler field names.
C3_RequestedScheduler ==
    (GenEntered /\ ~req.init_image /\ ~req.mask) =>
        /\ run.pipe = "txt2img_pipe"
        /\ run.scheduler = VariantNamed(req.scheduler)
        /\ pipes["txt2img_pipe"].scheduler = VariantNamed(req.scheduler)

\* A text-to-image request with K_EULER, after an image-to-image request has
\* left its own scheduler on the image-to-image pipeline.
C3_Witness ==
    /\ GenEntered
    /\ ~req.init_image
    /\ ~req.mask
    /\ req.scheduler = "K_EULER"
    /\ run.scheduler = "EulerDiscreteScheduler"
    /\ pipes["img2img_pipe"].scheduler = "PNDMScheduler"

C5_MaskWithoutImage ==
    (GenEntered /\ MaskOnly) =>
        /\ result.kind = "error"
        /\ result.err = "ValidationError"
        /\ result.paths = <<>>
        /\ calls = <<"generate">>
        /\ run = NoRun

C5_Witness ==
    /\ GenEntered
    /\ MaskOnly
    /\ ~req.prompt_en
    /\ result.err = "ValidationError"

\* C6: a successful generation request returns at most num_outputs paths,
\* those of the images the safety filter did not reject, in increasing index
\* order, exactly num_outputs of them when none was rejected; rejected
\* images make the list shorter, they do not make the request fail.
C6_OutputPaths ==
    /\ (GenEntered /\ result.kind = "ok") =>
        /\ Len(result.paths) <= req.num_outputs
        /\ \A i, j \in DOMAIN result.paths :
                i < j => result.paths[i] < result.paths[j]
        /\ {result.paths[i] : i \in DOMAIN result.paths}
                = (0..(req.num_outputs - 1)) \ nsfw
        /\ nsfw = {} => Len(result.paths) = req.num_outputs
    /\ (GenEntered /\ ~MaskOnly) => result.kind = "ok"

C6_Witness ==
    /\ GenEntered
    /\ req.num_outputs = 3
    /\ nsfw = {1}
    /\ result = Ok(<<0, 2>>)

\* C7: make_scheduler returns the variant its argument names when that is
\* one of the five names, and otherwise raises KeyError and returns no
\* scheduler.
C7_MakeScheduler ==
    \A i \in DOMAIN ms_out :
        IF ms_in[i] \in {"PNDM", "K-LMS", "DDIM", "K_EULER", "K_EULER_ANCESTRAL"}
        THEN /\ ms_out[i].kind = "ok"
             /\ ms_out[i].scheduler = VariantNamed(ms_in[i])
        ELSE /\ ms_out[i].kind = "KeyError"
             /\ ms_out[i].scheduler = "none"

C7_Witness ==
    /\ Len(ms_out) = 2
    /\ ms_in = <<"K_EULER", "pndm">>
    /\ ms_out[1] = [kind |-> "ok", scheduler |-> "EulerDiscreteScheduler"]
    /\ ms_out[2].kind = "KeyError"

\* C8: a request whose process_type is neither "generate" nor "upscale" is
\* rejected and neither orchestrator is invoked for it.
C8_ProcessTypeValidated ==
    (req # NoReq /\ req.process_type \notin {"generate", "upscale"}) =>
        /\ result.kind = "error"
        /\ Count(calls, "generate") = 0
        /\ Count(calls, "upscale") = 0
        /\ run = NoRun

C8_Witness ==
    /\ req.process_type = "other"
    /\ req.init_image
    /\ result = Err("InputRejected")
    /\ calls = <<>>

AllHandles == {HandleOrder[i] : i \in 1..NumHandles}

\* C9: a request is handled only after setup completed with every handle
\* loaded; a setup in which a load failed leaves the process aborted, where
\* nothing further happens: no second setup and no request.
C9_SetupAllOrNothing ==
    /\ req # NoReq => (phase = "ready" /\ loaded = AllHandles)
    /\ phase = "ready" => loaded = AllHandles
    /\ loaded # AllHandles => phase \in {"start", "aborted"}
    /\ phase = "aborted" => (req = NoReq /\ loaded # AllHandles /\ ~ENABLED Next)

\* Setup failed while loading the translation model: the three pipelines,
\* the detector and the tokenizer are assigned, the rest is not.
C9_Witness ==
    /\ phase = "aborted"
    /\ loaded = {"txt2img_pipe", "img2img_pipe", "inpaint_pipe",
                 "detect_language", "translate_tokenizer"}
    /\ req = NoReq

\* C10: once setup has completed, and after any requests, every
\* weight-bearing component of the three pipelines is the object loaded for
\* the text-to-image pipeline.
C10_SharedWeights ==
    phase = "ready" =>
        \A p \in PipeNames : \A i \in DOMAIN WeightComponents :
            /\ pipes[p][WeightComponents[i]]
                    = pipes["txt2img_pipe"][WeightComponents[i]]
            /\ pipes[p][WeightComponents[i]] = i

\* After requests that rebound the schedulers of two pipelines, the
\* pipelines still hold the same denoising network.
C10_Witness ==
    /\ phase = "ready"
    /\ run.pipe = "img2img_pipe"
    /\ pipes["img2img_pipe"].scheduler # pipes["txt2img_pipe"].scheduler
    /\ pipes["txt2img_pipe"].scheduler # "CheckpointScheduler"
    /\ pipes["img2img_pipe"].unet = pipes["txt2img_pipe"].unet
    /\ pipes["inpaint_pipe"].unet = pipes["txt2img_pipe"].unet

====
